---- MODULE Spec2Model ----
(***************************************************************************)
(* Model of the /alerts endpoint of backend/app/main.py: one request      *)
(* handler that opens a database connection, issues three queries against *)
(* "<schema>".raw_conveyor (latest row, staleness, windowed aggregate),   *)
(* evaluates the alert rules between them and returns {alerts, count}, or *)
(* ends in HTTP 500 when anything raises.  The table is written by an     *)
(* external ingestion writer which may commit rows between the queries.   *)
(*                                                                         *)
(* Nullable values (SQL NULL / Python None) are the empty tuple, a        *)
(* present value v is the one-element tuple <<v>>.  A Python float is     *)
(* named by the reduced fraction <<num, den>> it is the nearest double    *)
(* to; formatting works on that double.  Time is in whole seconds.        *)
(***************************************************************************)
EXTENDS Bags, FiniteSets, Integers, Sequences, TLC

VARIABLES
    table,          \* bag of rows of raw_conveyor
    now,            \* database clock, seconds
    inserts,        \* number of batches the ingestion writer has committed
    pc,             \* position of the handler: idle, latest, stale, window, done
    params,         \* query parameters of the current call
    conn,           \* connection of the current call: none, open, closed
    cur,            \* cursor of the current call: none, open, closed
    txnNow,         \* value of NOW() in the call's transaction
    latest,         \* row fetched by the latest-event query
    seconds_stale,  \* value fetched by the staleness query
    worst,          \* row fetched by the windowed-aggregate query
    active_alerts,  \* list being built
    response,       \* outcome of the call once it has ended
    snap,           \* the table contents each of the three queries ran against
    prev            \* the preceding call, kept when two calls are compared

vars == <<table, now, inserts, pc, params, conn, cur, txnNow, latest,
          seconds_stale, worst, active_alerts, response, snap, prev>>

-----------------------------------------------------------------------------
(* Bounds of the model *)

MaxInserts == 2
StartClock == 90
MaxClock == 120
TickSeconds == 30

(* Program constants *)

MinSamples == 5
SecondsPerMinute == 60
ErrorStatus == 500
OkStatus == 200
SignificandBits == 53

(* Input domains *)

Conveyors == {1, 2}
Pis == {"pi-a"}
Parts == {"P1"}
Durations == {<<>>, <<3>>, <<4>>}
BatchSizes == {MinSamples - 1, MinSamples}
Lags == {60, 90}
StaleChoices == {30, 60}
SlowChoices == {3}
WindowChoices == {1, 2}

-----------------------------------------------------------------------------
(* Values *)

Null == <<>>

Some(v) == <<v>>

IsNull(x) == x = <<>>

Val(x) == x[1]

RECURSIVE Gcd(_, _)
Gcd(a, b) == IF b = 0 THEN a ELSE Gcd(b, a % b)

Abs(a) == IF a < 0 THEN -a ELSE a

\* a / b as a reduced fraction, b > 0
Rat(a, b) == LET g == Gcd(Abs(a), b) IN <<a \div g, b \div g>>

\* float(x) of an integer-valued x
Float(i) == Rat(i, 1)

\* x > y on fractions with positive denominators
RatGT(x, y) == x[1] * y[2] > y[1] * x[2]

\* int(x): truncation toward zero
IntOf(x) == IF x[1] >= 0 THEN x[1] \div x[2] ELSE -((-x[1]) \div x[2])

Pad2(n) == IF n < 10 THEN "0" \o ToString(n) ELSE ToString(n)

RECURSIVE FloorLog2(_)
FloorLog2(n) == IF n < 2 THEN 0 ELSE 1 + FloorLog2(n \div 2)

\* Least k with a * 2^k >= b, for 0 < a
RECURSIVE ShiftsToReach(_, _)
ShiftsToReach(a, b) == IF a >= b THEN 0 ELSE 1 + ShiftsToReach(2 * a, b)

\* Binary exponent e of x > 0: 2^e <= x < 2^(e+1)
Exponent(x) ==
    IF x[1] >= x[2] THEN FloorLog2(x[1] \div x[2])
    ELSE -ShiftsToReach(x[1], x[2])

\* (r * 2^s) mod b
RECURSIVE ShiftMod(_, _, _)
ShiftMod(r, s, b) == IF s = 0 THEN r % b ELSE ShiftMod((2 * r) % b, s - 1, b)

RECURSIVE IsPowerOfTwo(_)
IsPowerOfTwo(b) == b = 1 \/ (b % 2 = 0 /\ IsPowerOfTwo(b \div 2))

\* float(avg_duration) is the double nearest to the fraction x > 0, with a
\* 53-bit significand.  The double is x itself when the denominator is a
\* power of two; otherwise it lies above x exactly when the part of x cut
\* off below the last significand bit is more than half a unit.
DoubleIsExact(x) == IsPowerOfTwo(x[2])

DoubleIsAbove(x) ==
    2 * ShiftMod(x[1], SignificandBits - 1 - Exponent(x), x[2]) > x[2]

\* f"{x:.2f}" for x >= 0: the hundredths of the double nearest to x, ties of
\* the double's own value to even.  Off a tie the double rounds as x does;
\* on a tie of x the double decides: to even when it is x, else by its side.
Fmt2(x) ==
    LET n == x[1] * 100
        q == n \div x[2]
        r == n % x[2]
        h == IF 2 * r > x[2] THEN q + 1
             ELSE IF 2 * r < x[2] THEN q
             ELSE IF DoubleIsExact(x) THEN q + (q % 2)
             ELSE IF DoubleIsAbove(x) THEN q + 1
             ELSE q
    IN ToString(h \div 100) \o "." \o Pad2(h % 100)

-----------------------------------------------------------------------------
(* The queries *)

Row(c, p, s, d, t) ==
    [conveyor_id |-> c, part_id |-> p, source_pi |-> s,
     duration_sec |-> d, event_time |-> t]

Rows(t) == BagToSet(t)

\* Variant: COALESCE(MAX(event_time), epoch) in place of MAX(event_time)
MaxEventTimeCoalesced(t) ==
    IF Rows(t) = {} THEN Some(0)
    ELSE Some(CHOOSE m \in {r.event_time : r \in Rows(t)} :
                \A r \in Rows(t) : r.event_time <= m)

\* MAX(event_time), NULL on an empty table
MaxEventTime(t) ==
    IF Rows(t) = {} THEN Null
    ELSE Some(CHOOSE m \in {r.event_time : r \in Rows(t)} :
                \A r \in Rows(t) : r.event_time <= m)

\* Variant: ORDER BY event_time ASC LIMIT 1
LatestChoicesAscending(t) ==
    IF Rows(t) = {} THEN {Null}
    ELSE {Some(r) : r \in {q \in Rows(t) :
                             \A o \in Rows(t) : q.event_time <= o.event_time}}

\* ORDER BY event_time DESC LIMIT 1: any row among those with the greatest
\* event_time; fetchone() gives None on an empty table
LatestChoices(t) ==
    IF Rows(t) = {} THEN {Null}
    ELSE {Some(r) : r \in {q \in Rows(t) : q.event_time = Val(MaxEventTime(t))}}

\* EXTRACT(EPOCH FROM (NOW() - MAX(event_time)))
SecondsStale(t, n) ==
    IF IsNull(MaxEventTime(t)) THEN Null ELSE Some(n - Val(MaxEventTime(t)))

\* WHERE event_time >= NOW() - (window_minutes || ' minutes')::interval
InWindow(r, n, wm) == r.event_time >= n - wm * SecondsPerMinute

GroupKey(r) == <<r.conveyor_id, r.source_pi>>

GroupRows(t, n, wm, g) ==
    {r \in Rows(t) : InWindow(r, n, wm) /\ GroupKey(r) = g}

Groups(t, n, wm) == {GroupKey(r) : r \in {q \in Rows(t) : InWindow(q, n, wm)}}

\* COUNT(*)
RECURSIVE CountRows(_, _)
CountRows(t, S) ==
    IF S = {} THEN 0
    ELSE LET r == CHOOSE r \in S : TRUE
         IN CopiesIn(r, t) + CountRows(t, S \ {r})

\* AVG(duration_sec): NULL inputs are skipped, NULL when nothing is left
AvgDuration(t, S) ==
    LET D == {r \in S : ~IsNull(r.duration_sec)}
        Sum[T \in SUBSET D] ==
            IF T = {} THEN 0
            ELSE LET r == CHOOSE r \in T : TRUE
                 IN CopiesIn(r, t) * Val(r.duration_sec) + Sum[T \ {r}]
    IN IF D = {} THEN Null ELSE Some(Rat(Sum[D], CountRows(t, D)))

Stat(t, n, wm, g) ==
    [conveyor_id |-> g[1], source_pi |-> g[2],
     avg_duration |-> AvgDuration(t, GroupRows(t, n, wm, g)),
     n |-> CountRows(t, GroupRows(t, n, wm, g))]

\* Variant: HAVING COUNT(*) > 3
QualifyingOffByOne(t, n, wm) ==
    {s \in {Stat(t, n, wm, g) : g \in Groups(t, n, wm)} : s.n > MinSamples - 2}

\* GROUP BY conveyor_id, source_pi HAVING COUNT(*) >= 5
Qualifying(t, n, wm) ==
    {s \in {Stat(t, n, wm, g) : g \in Groups(t, n, wm)} : s.n >= MinSamples}

\* ORDER BY AVG(duration_sec) DESC: PostgreSQL sorts NULL as larger than
\* every value, so a NULL average comes first in descending order
SortsBefore(a, b) ==
    \/ IsNull(a.avg_duration)
    \/ /\ ~IsNull(b.avg_duration)
       /\ ~RatGT(Val(b.avg_duration), Val(a.avg_duration))

\* ... LIMIT 1: any first row of the ordering; None when no group qualifies
WorstChoices(t, n, wm) ==
    LET Q == Qualifying(t, n, wm)
    IN IF Q = {} THEN {Null}
       ELSE {Some(s) : s \in {a \in Q : \A b \in Q : SortsBefore(a, b)}}

-----------------------------------------------------------------------------
(* The rules *)

NoDataAlert ==
    [type |-> "conveyor_no_data", severity |-> "critical",
     title |-> "No conveyor data",
     message |-> "raw_conveyor has no rows yet.",
     source |-> "raw_conveyor",
     event_time |-> Null, conveyor_id |-> Null, part_id |-> Null,
     source_pi |-> Null, trigger_value |-> Null, threshold |-> Null]

StaleAlert(l, s, p) ==
    [type |-> "conveyor_stale", severity |-> "warning",
     title |-> "Conveyor events stopped",
     message |-> "No conveyor events in the last "
                   \o ToString(IntOf(Float(Val(s)))) \o " seconds.",
     source |-> "raw_conveyor",
     event_time |-> IF IsNull(l) THEN Null ELSE Some(ToString(Val(l).event_time)),
     conveyor_id |-> IF IsNull(l) THEN Null ELSE Some(Val(l).conveyor_id),
     part_id |-> IF IsNull(l) THEN Null ELSE Some(Val(l).part_id),
     source_pi |-> IF IsNull(l) THEN Null ELSE Some(Val(l).source_pi),
     trigger_value |-> Some(Float(Val(s))),
     threshold |-> Some(Float(p.conveyor_stale_seconds))]

SlowAlert(w, p) ==
    [type |-> "conveyor_slow", severity |-> "warning",
     title |-> "Conveyor running slow",
     message |-> "Conveyor " \o ToString(Val(w).conveyor_id)
                   \o " avg duration " \o Fmt2(Val(Val(w).avg_duration))
                   \o "s in last " \o ToString(p.window_minutes)
                   \o " min (n=" \o ToString(Val(w).n) \o ").",
     source |-> "raw_conveyor",
     event_time |-> Null,
     conveyor_id |-> Some(Val(w).conveyor_id),
     part_id |-> Null,
     source_pi |-> Some(Val(w).source_pi),
     trigger_value |-> Some(Val(Val(w).avg_duration)),
     threshold |-> Some(Float(p.conveyor_slow_duration))]

\* Variant: >= in place of > in rule 2
StaleRuleNotStrict(l, s, p) ==
    IF IsNull(s) THEN <<NoDataAlert>>
    ELSE IF ~RatGT(Float(p.conveyor_stale_seconds), Float(Val(s)))
         THEN <<StaleAlert(l, s, p)>>
         ELSE <<>>

\* Variant: rule 1 tests the latest row in place of seconds_stale
StaleRuleOnLatest(l, s, p) ==
    IF IsNull(l) THEN <<NoDataAlert>>
    ELSE IF ~IsNull(s) /\ RatGT(Float(Val(s)), Float(p.conveyor_stale_seconds))
         THEN <<StaleAlert(l, s, p)>>
         ELSE <<>>

\* if seconds_stale is None: ... else: if float(seconds_stale) > float(...)
StaleRule(l, s, p) ==
    IF IsNull(s) THEN <<NoDataAlert>>
    ELSE IF RatGT(Float(Val(s)), Float(p.conveyor_stale_seconds))
         THEN <<StaleAlert(l, s, p)>>
         ELSE <<>>

\* if worst and worst["avg_duration"] is not None: if avg_d > float(...)
SlowRule(w, p) ==
    IF ~IsNull(w) /\ ~IsNull(Val(w).avg_duration)
       /\ RatGT(Val(Val(w).avg_duration), Float(p.conveyor_slow_duration))
    THEN <<SlowAlert(w, p)>>
    ELSE <<>>

\* Variant: the list is returned newest first
OkResponseReversed(a) ==
    [kind |-> "ok", status |-> OkStatus,
     body |-> Some([alerts |-> [i \in 1..Len(a) |-> a[Len(a) + 1 - i]],
                    count |-> Len(a)])]

\* return {"alerts": active_alerts, "count": len(active_alerts)}
OkResponse(a) ==
    [kind |-> "ok", status |-> OkStatus,
     body |-> Some([alerts |-> a, count |-> Len(a)])]

\* raise HTTPException(status_code=500, detail=str(e))
ErrorResponse == [kind |-> "error", status |-> ErrorStatus, body |-> Null]

-----------------------------------------------------------------------------
(* State machine *)

ParamChoices ==
    [conveyor_stale_seconds : StaleChoices,
     conveyor_slow_duration : SlowChoices,
     window_minutes : WindowChoices]

\* Query(default=30), Query(default=3.0), Query(default=2)
DefaultParams ==
    [conveyor_stale_seconds |-> 30, conveyor_slow_duration |-> 3,
     window_minutes |-> 2]

NoSnap == [start |-> Null, latest |-> Null, stale |-> Null, window |-> Null]

Init ==
    /\ table = EmptyBag
    /\ now = StartClock
    /\ inserts = 0
    /\ pc = "idle"
    /\ params = DefaultParams
    /\ conn = "none"
    /\ cur = "none"
    /\ txnNow = Null
    /\ latest = Null
    /\ seconds_stale = Null
    /\ worst = Null
    /\ active_alerts = <<>>
    /\ response = Null
    /\ snap = NoSnap
    /\ prev = Null

\* Variant: active_alerts is a module-level list that is not cleared
EnterKeepsAlerts(p) ==
    /\ params' = p
    /\ conn' = "open"
    /\ cur' = "open"
    /\ active_alerts' = active_alerts
    /\ txnNow' = Null
    /\ latest' = Null
    /\ seconds_stale' = Null
    /\ worst' = Null
    /\ response' = Null
    /\ snap' = [NoSnap EXCEPT !.start = Some(table)]
    /\ pc' = "latest"
    /\ UNCHANGED <<table, now, inserts>>

\* conn = get_conn(); cur = conn.cursor(...); active_alerts = []
Enter(p) ==
    /\ params' = p
    /\ conn' = "open"
    /\ cur' = "open"
    /\ active_alerts' = <<>>
    /\ txnNow' = Null
    /\ latest' = Null
    /\ seconds_stale' = Null
    /\ worst' = Null
    /\ response' = Null
    /\ snap' = [NoSnap EXCEPT !.start = Some(table)]
    /\ pc' = "latest"
    /\ UNCHANGED <<table, now, inserts>>

\* get_conn() raises: nothing was acquired, the handler answers 500
EnterFails(p) ==
    /\ params' = p
    /\ conn' = "none"
    /\ cur' = "none"
    /\ active_alerts' = <<>>
    /\ txnNow' = Null
    /\ latest' = Null
    /\ seconds_stale' = Null
    /\ worst' = Null
    /\ response' = Some(ErrorResponse)
    /\ snap' = [NoSnap EXCEPT !.start = Some(table)]
    /\ pc' = "done"
    /\ UNCHANGED <<table, now, inserts>>

\* A request arrives
StartCall(p) == pc = "idle" /\ Enter(p) /\ prev' = prev

ConnectFails(p) == pc = "idle" /\ EnterFails(p) /\ prev' = prev

\* A second request with the same parameters follows the first; the first
\* call's outcome is kept for comparison
Ended == [params |-> params, response |-> response, txnNow |-> txnNow,
          latest |-> latest, worst |-> worst, snap |-> snap]

RepeatCall ==
    /\ pc = "done" /\ IsNull(prev)
    /\ prev' = Some(Ended)
    /\ Enter(params)

RepeatConnectFails ==
    /\ pc = "done" /\ IsNull(prev)
    /\ prev' = Some(Ended)
    /\ EnterFails(params)

\* First execute: psycopg2 opens the transaction here, which fixes NOW()
\* for the rest of the call; each statement sees the rows committed so far.
ReadLatest ==
    /\ pc = "latest"
    /\ txnNow' = Some(now)
    /\ latest' \in LatestChoices(table)
    /\ snap' = [snap EXCEPT !.latest = Some(table)]
    /\ pc' = "stale"
    /\ UNCHANGED <<table, now, inserts, params, conn, cur, seconds_stale,
                   worst, active_alerts, response, prev>>

\* Staleness query, then rules 1 and 2
ReadStale ==
    /\ pc = "stale"
    /\ seconds_stale' = SecondsStale(table, Val(txnNow))
    /\ active_alerts' = active_alerts \o StaleRule(latest, seconds_stale', params)
    /\ snap' = [snap EXCEPT !.stale = Some(table)]
    /\ pc' = "window"
    /\ UNCHANGED <<table, now, inserts, params, conn, cur, txnNow, latest,
                   worst, response, prev>>

\* Windowed-aggregate query, rule 3, cur.close(), conn.close(), return
ReadWindow ==
    /\ pc = "window"
    /\ worst' \in WorstChoices(table, Val(txnNow), params.window_minutes)
    /\ active_alerts' = active_alerts \o SlowRule(worst', params)
    /\ snap' = [snap EXCEPT !.window = Some(table)]
    /\ cur' = "closed"
    /\ conn' = "closed"
    /\ response' = Some(OkResponse(active_alerts'))
    /\ pc' = "done"
    /\ UNCHANGED <<table, now, inserts, params, txnNow, latest,
                   seconds_stale, prev>>

\* Variant: the except clause returns what was collected so far
QueryFailsReturnsPartial ==
    /\ pc \in {"latest", "stale", "window"}
    /\ response' = Some(OkResponse(active_alerts))
    /\ pc' = "done"
    /\ UNCHANGED <<table, now, inserts, params, conn, cur, txnNow, latest,
                   seconds_stale, worst, active_alerts, snap, prev>>

\* cur.execute raises at any of the three queries: control jumps to the
\* except clause, which raises HTTPException; close() is not reached
QueryFails ==
    /\ pc \in {"latest", "stale", "window"}
    /\ response' = Some(ErrorResponse)
    /\ pc' = "done"
    /\ UNCHANGED <<table, now, inserts, params, conn, cur, txnNow, latest,
                   seconds_stale, worst, active_alerts, snap, prev>>

\* The ingestion writer commits k rows of one conveyor; the rows carry the
\* device's timestamp, which may lag the database clock
Insert(c, p, s, d, k, lag) ==
    /\ inserts < MaxInserts
    /\ now - lag >= 0
    /\ inserts' = inserts + 1
    /\ table' = table (+) (Row(c, p, s, d, now - lag) :> k)
    /\ UNCHANGED <<now, pc, params, conn, cur, txnNow, latest, seconds_stale,
                   worst, active_alerts, response, snap, prev>>

Writes ==
    \E c \in Conveyors, p \in Parts, s \in Pis, d \in Durations,
       k \in BatchSizes, lag \in Lags :
        Insert(c, p, s, d, k, lag)

Tick ==
    /\ now < MaxClock
    /\ now' = now + TickSeconds
    /\ UNCHANGED <<table, inserts, pc, params, conn, cur, txnNow, latest,
                   seconds_stale, worst, active_alerts, response, snap, prev>>

\* One request, with the writer running until it has ended.  NOW() is fixed
\* for the whole transaction, so the clock is left alone here.
Next ==
    \/ \E p \in ParamChoices : StartCall(p)
    \/ \E p \in ParamChoices : ConnectFails(p)
    \/ ReadLatest
    \/ ReadStale
    \/ ReadWindow
    \/ QueryFails
    \/ pc # "done" /\ Writes

Spec == Init /\ [][Next]_vars

\* Two requests in succession against a data set that was loaded before the
\* first one arrived, with the clock running from then on
NextTwice ==
    \/ \E p \in ParamChoices : StartCall(p)
    \/ \E p \in ParamChoices : ConnectFails(p)
    \/ RepeatCall
    \/ RepeatConnectFails
    \/ ReadLatest
    \/ ReadStale
    \/ ReadWindow
    \/ QueryFails
    \/ pc = "idle" /\ Writes
    \/ pc # "idle" /\ (pc # "done" \/ IsNull(prev)) /\ Tick

SpecTwice == Init /\ [][NextTwice]_vars

-----------------------------------------------------------------------------
(* Vocabulary of the properties *)

\* The call has ended by returning {alerts, count}
Returned == pc = "done" /\ ~IsNull(response) /\ Val(response).kind = "ok"

\* The call has ended in HTTP 500
Failed == pc = "done" /\ ~IsNull(response) /\ Val(response).kind = "error"

AlertsOf(r) == Val(r.body).alerts

Out == AlertsOf(Val(response))

\* Positions of the alerts of one type in a list
Of(a, ty) == {i \in 1..Len(a) : a[i].type = ty}

Has(a, ty) == Of(a, ty) # {}

The(a, ty) == a[CHOOSE i \in Of(a, ty) : TRUE]

\* The table as the staleness query and the windowed query found it
AtStale == Val(snap.stale)

AtWindow == Val(snap.window)

\* Greatest event_time of a non-empty set of rows
Newest(R) == CHOOSE m \in {r.event_time : r \in R} : \A r \in R : r.event_time <= m

-----------------------------------------------------------------------------
\* C1: a call whose staleness read found the partition empty returns exactly
\* one conveyor_no_data alert, critical, with event_time, conveyor_id,
\* part_id, source_pi, trigger_value and threshold null, and no
\* conveyor_stale alert, whatever conveyor_stale_seconds is.
C1_NoData ==
    (Returned /\ Rows(AtStale) = {}) =>
        /\ Cardinality(Of(Out, "conveyor_no_data")) = 1
        /\ Of(Out, "conveyor_stale") = {}
        /\ LET a == The(Out, "conveyor_no_data")
           IN /\ a.severity = "critical"
              /\ IsNull(a.event_time) /\ IsNull(a.conveyor_id)
              /\ IsNull(a.part_id) /\ IsNull(a.source_pi)
              /\ IsNull(a.trigger_value) /\ IsNull(a.threshold)

C1_Witness ==
    /\ Returned /\ Rows(AtStale) = {}
    /\ Has(Out, "conveyor_no_data")
    /\ params.conveyor_stale_seconds = 60

\* C2: with at least one event at the staleness read, the list holds exactly
\* one conveyor_stale alert when seconds_stale > conveyor_stale_seconds and
\* none when seconds_stale <= conveyor_stale_seconds; the alert's
\* trigger_value is the measured staleness and its threshold the parameter.
C2_Stale ==
    (Returned /\ Rows(AtStale) # {}) =>
        LET measured == Val(txnNow) - Newest(Rows(AtStale))
            limit == params.conveyor_stale_seconds
        IN /\ seconds_stale = Some(measured)
           /\ measured <= limit => Of(Out, "conveyor_stale") = {}
           /\ measured > limit =>
                /\ Cardinality(Of(Out, "conveyor_stale")) = 1
                /\ The(Out, "conveyor_stale").trigger_value = Some(<<measured, 1>>)
                /\ The(Out, "conveyor_stale").threshold = Some(<<limit, 1>>)

C2_Witness ==
    /\ Returned /\ Rows(AtStale) # {}
    /\ Has(Out, "conveyor_stale")
    /\ Val(seconds_stale) = 90 /\ params.conveyor_stale_seconds = 60

\* The equality case of C2: measured staleness equal to the limit, no alert
C2_EqualityReached ==
    /\ Returned /\ Rows(AtStale) # {}
    /\ Val(seconds_stale) = params.conveyor_stale_seconds
    /\ ~Has(Out, "conveyor_stale")

\* Means of the groups of the window that reach the sample floor
QualifyingMeans ==
    {Val(q.avg_duration) :
        q \in {x \in Qualifying(AtWindow, Val(txnNow), params.window_minutes) :
                 ~IsNull(x.avg_duration)}}

HighestMean == CHOOSE m \in QualifyingMeans : \A o \in QualifyingMeans : ~RatGT(o, m)

\* C3: if the highest mean duration_sec among the window's groups of at least
\* 5 samples exceeds conveyor_slow_duration, the list holds exactly one
\* conveyor_slow alert with that mean as trigger_value and
\* conveyor_slow_duration as threshold, whatever other alerts were emitted
\* and whatever other qualifying groups exist.
C3_Slow ==
    (Returned /\ QualifyingMeans # {}
       /\ RatGT(HighestMean, <<params.conveyor_slow_duration, 1>>)) =>
        /\ Cardinality(Of(Out, "conveyor_slow")) = 1
        /\ The(Out, "conveyor_slow").trigger_value = Some(HighestMean)
        /\ The(Out, "conveyor_slow").threshold
             = Some(<<params.conveyor_slow_duration, 1>>)

\* The case C3 is right about: no qualifying group is without a mean
C3_SlowReached ==
    /\ Returned /\ Has(Out, "conveyor_slow")
    /\ Cardinality(QualifyingMeans) = 2

\* Number of rows of each group inside the window
WindowCounts ==
    {CountRows(AtWindow, GroupRows(AtWindow, Val(txnNow), params.window_minutes, g)) :
        g \in Groups(AtWindow, Val(txnNow), params.window_minutes)}

\* C4: when every group of the window has fewer than 5 events there is no
\* conveyor_slow alert, however high the means are.
C4_SampleFloor ==
    (Returned /\ \A n \in WindowCounts : n < MinSamples) =>
        Of(Out, "conveyor_slow") = {}

C4_Witness ==
    /\ Returned
    /\ WindowCounts = {MinSamples - 1}
    /\ \E r \in Rows(AtWindow) :
          /\ InWindow(r, Val(txnNow), params.window_minutes)
          /\ ~IsNull(r.duration_sec)
          /\ Val(r.duration_sec) > params.conveyor_slow_duration

\* C5: a call in which any of the three reads did not succeed ends in the
\* error outcome without a body, also when an alert had been appended
\* already; a body is returned only after all three reads succeeded.
C5_AllOrNothing ==
    pc = "done" =>
        /\ (IsNull(snap.latest) \/ IsNull(snap.stale) \/ IsNull(snap.window)) =>
              /\ Val(response).kind = "error"
              /\ Val(response).status = ErrorStatus
              /\ IsNull(Val(response).body)
        /\ ~IsNull(Val(response).body) =>
              /\ ~IsNull(snap.latest) /\ ~IsNull(snap.stale)
              /\ ~IsNull(snap.window)

C5_Witness ==
    /\ Failed
    /\ ~IsNull(snap.stale) /\ IsNull(snap.window)
    /\ Len(active_alerts) = 1

\* C6: in a returned body count is the length of alerts, each type occurs at
\* most once, and the list is the evaluator's list in rule order:
\* conveyor_no_data or conveyor_stale precedes conveyor_slow.
C6_Shape ==
    Returned =>
        /\ Val(Val(response).body).count = Len(Out)
        /\ Out = active_alerts
        /\ \A ty \in {"conveyor_no_data", "conveyor_stale", "conveyor_slow"} :
              Cardinality(Of(Out, ty)) <= 1
        /\ \A i, j \in 1..Len(Out) :
              (Out[i].type = "conveyor_slow" /\ Out[j].type # "conveyor_slow")
                  => j < i

C6_Witness ==
    /\ Returned /\ Len(Out) = 2
    /\ Out[1].type = "conveyor_stale" /\ Out[2].type = "conveyor_slow"

-----------------------------------------------------------------------------
\* Both calls of the pair have returned a body
BothReturned == Returned /\ ~IsNull(prev) /\ Val(Val(prev).response).kind = "ok"

\* No row was committed from the start of the first call to now
DataUnchanged == Val(prev).snap.start = Some(table) /\ snap.start = Some(table)

\* C7 as stated: two calls in succession with the same parameters against an
\* unchanged data set return identical results.
C7_Idempotent ==
    (BothReturned /\ DataUnchanged /\ Val(prev).params = params) =>
        Val(response) = Val(Val(prev).response)

\* The latest event and the first group of the window's ordering are unique
NoTies ==
    /\ Cardinality(LatestChoices(table)) = 1
    /\ Cardinality(WorstChoices(table, Val(txnNow), params.window_minutes)) = 1

\* C7 amended: two calls with the same parameters against an unchanged data
\* set, evaluated at the same database time and with no tie for the latest
\* event or for the slowest group, return identical results; nothing is
\* carried from the first call to the second.
C7_IdempotentAtSameTime ==
    (BothReturned /\ DataUnchanged /\ Val(prev).params = params
       /\ Val(prev).txnNow = txnNow /\ NoTies) =>
        Val(response) = Val(Val(prev).response)

C7_Witness ==
    /\ BothReturned /\ DataUnchanged /\ Val(prev).params = params
    /\ Val(prev).txnNow = txnNow /\ NoTies
    /\ Len(Out) = 2

-----------------------------------------------------------------------------
\* The identifiers of alert a are those of row r
CarriesRow(a, r) ==
    /\ a.event_time = Some(ToString(r.event_time))
    /\ a.conveyor_id = Some(r.conveyor_id)
    /\ a.part_id = Some(r.part_id)
    /\ a.source_pi = Some(r.source_pi)

\* The identifiers of the conveyor_stale alert are those of an event whose
\* event_time is the maximum the staleness was measured from
StaleCarriesNewest ==
    \E r \in Rows(AtStale) :
        /\ r.event_time = Newest(Rows(AtStale))
        /\ CarriesRow(The(Out, "conveyor_stale"), r)

\* C8 as stated: a conveyor_stale alert carries the identifiers of the latest
\* known event, also when rows are committed between the latest-event read
\* and the staleness read.
C8_StaleIdentifiers ==
    (Returned /\ Has(Out, "conveyor_stale")) => StaleCarriesNewest

\* C8 amended: a conveyor_stale alert carries the identifiers of the latest
\* known event when no row is committed between the latest-event read and
\* the staleness read of the call.
C8_StaleIdentifiersNoRace ==
    (Returned /\ Has(Out, "conveyor_stale") /\ snap.latest = snap.stale)
        => StaleCarriesNewest

C8_Witness ==
    /\ Returned /\ Has(Out, "conveyor_stale") /\ snap.latest = snap.stale
    /\ Cardinality({r.event_time : r \in Rows(AtStale)}) = 2
    /\ Cardinality({r.conveyor_id : r \in Rows(AtStale)}) = 2

\* C9: when the call has ended, with a body or with the error, neither its
\* connection nor its cursor is open.
C9_Released == pc = "done" => (conn # "open" /\ cur # "open")

\* C10: no response holds more than two alerts; against a data set that did
\* not change during the call conveyor_no_data and conveyor_slow do not
\* appear together; they appear together only when rows were committed
\* between the staleness read and the windowed read.
C10_NoDataWithSlow ==
    Returned =>
        /\ Len(Out) <= 2
        /\ ~(Has(Out, "conveyor_no_data") /\ Has(Out, "conveyor_stale"))
        /\ snap.start = snap.window =>
              ~(Has(Out, "conveyor_no_data") /\ Has(Out, "conveyor_slow"))
        /\ (Has(Out, "conveyor_no_data") /\ Has(Out, "conveyor_slow")) =>
              /\ snap.stale # snap.window
              /\ Rows(AtStale) = {} /\ Rows(AtWindow) # {}

C10_Witness ==
    /\ Returned
    /\ Has(Out, "conveyor_no_data") /\ Has(Out, "conveyor_slow")

====
